---- MODULE Spec2Model ----
(***************************************************************************)
(* A model of sympl/_core/util.py: the direction registry (dim_names,      *)
(* set_dimension_names), the dimension resolver (combine_dimensions) and   *)
(* the view builder (get_numpy_array and its helpers), together with the   *)
(* view restorer (restore_dimensions) that sympl/__init__.py exports.      *)
(*                                                                         *)
(* An ndarray is a record [shape, data]: data is the array's elements in   *)
(* row-major (C) order.  A DataArray is [dims, shape, data].  The elements *)
(* of an input array are the distinct numbers 1..size, so that any         *)
(* misplaced element is visible.                                           *)
(***************************************************************************)
EXTENDS Integers, Sequences, FiniteSets, TLC

\* ------------------------------------------------------------------ bounds
MaxDims == 3        \* most axes of an input DataArray
MaxLen == 2         \* longest axis of an input DataArray
MaxOutDims == 3     \* longest out_dims
MaxArrays == 2      \* most arrays handed to combine_dimensions
MaxCombineDims == 2 \* most axes of an array handed to combine_dimensions
MaxTime == 3        \* latest state['time'] handed to an UpdateFrequencyWrapper
MaxDelta == 2       \* longest update_timedelta
MaxCalls == 3       \* most calls of one UpdateFrequencyWrapper
MaxUpdates == 3     \* most calls of update_dict_by_adding_another

\* ------------------------------------------------------------- vocabulary
Directions == {"x", "y", "z"}
Wildcard == "*"
\* Axis names arrays may carry: the three letters and "lon", which is of
\* unknown direction until set_dimension_names registers it.
Names == {"x", "y", "z", "lon"}
\* What a caller may write in out_dims.
Tokens == Names \cup {Wildcard}
\* Python's None inside a list of names.
NoneName == "<None>"

\* ---------------------------------------------------------------- helpers
RECURSIVE Product(_)
Product(s) == IF s = <<>> THEN 1 ELSE Head(s) * Product(Tail(s))

RECURSIVE Concat(_)
Concat(ss) == IF ss = <<>> THEN <<>> ELSE Head(ss) \o Concat(Tail(ss))

Range(s) == {s[i] : i \in DOMAIN s}

Min(a, b) == IF a < b THEN a ELSE b

\* list.index(v): the first position holding v
IndexOf(s, v) == CHOOSE i \in DOMAIN s : s[i] = v /\ \A j \in 1..(i - 1) : s[j] # v

\* All sequences of length at most n over S
SeqsUpTo(S, n) == UNION {[1..k -> S] : k \in 0..n}

\* All sequences over S without repeated elements, of length at most n
InjSeqsUpTo(S, n) == {s \in SeqsUpTo(S, n) : \A i, j \in DOMAIN s : s[i] = s[j] => i = j}

\* All orders in which the elements of a finite set can be iterated
IterOrders(S) == {s \in [1..Cardinality(S) -> S] : Range(s) = S}

\* The elements of set S in the order of sequence s (s lists each once)
InOrderOf(s, S) ==
  LET RECURSIVE F(_)
      F(t) == IF t = <<>> THEN <<>>
              ELSE IF Head(t) \in S THEN <<Head(t)>> \o F(Tail(t)) ELSE F(Tail(t))
  IN F(s)

\* ------------------------------------------------------------------ state
VARIABLES
  dim_names,          \* the registry: direction -> list of axis names
  op,                 \* the operation that ran last
  arrays,             \* combine_dimensions: its arrays argument
  data_array,         \* get_numpy_array: its data_array argument
  out_dims,           \* the out_dims argument of the last resolver/builder call
  direction_to_names, \* get_numpy_array: direction -> names, in iteration order
  ret,                \* what the last call returned or raised
  restored,           \* what restore_dimensions returned or raised
  args,               \* set_dimension_names: its arguments x, y, z
  before,             \* set_dimension_names: the registry when the call began
  result_like,        \* restore_dimensions: its result_like argument
  result_attrs        \* restore_dimensions: its result_attrs argument

\* An UpdateFrequencyWrapper and the calls made of it
VARIABLES
  update_timedelta,   \* self._update_timedelta
  cached_output,      \* self._cached_output
  last_update_time,   \* self._last_update_time
  calls               \* the calls so far: what each was given, did and gave back

wrapper_vars == <<update_timedelta, cached_output, last_update_time, calls>>

\* A model state and the last call of get_numpy_arrays_with_properties on it
VARIABLES
  state,              \* quantity name -> DataArray
  properties,         \* the property dictionary of the last call
  batch_ret           \* what the last call returned or raised

batch_vars == <<state, properties, batch_ret>>

\* The dictionaries a caller holds and its update_dict_by_adding_another calls
VARIABLES
  heap,               \* the array-like objects: reference -> contents
  dict1,              \* the dictionary passed as dict1: key -> value
  dict2,              \* the dictionaries passed as dict2: name -> key -> value
  made,               \* what every dictionary held before the first call
  passed,             \* key -> how often, and with what sum, dict2 has held it
  updates             \* the number of calls so far

dict_vars == <<heap, dict1, dict2, made, passed, updates>>

vars == <<dim_names, op, arrays, data_array, out_dims, direction_to_names, ret, restored,
          args, before, result_like, result_attrs, wrapper_vars, batch_vars,
          dict_vars>>

\* -------------------------------------------------------------- registry
\* dim_names = {'x': ['x'], 'y': ['y'], 'z': ['z']}
InitDimNames == [d \in Directions |-> <<d>>]

\* What a caller passes for one direction: nothing/None, a string, or a
\* sequence of strings
ArgNone == [kind |-> "none", val |-> <<>>]
ArgStr(n) == [kind |-> "str", val |-> <<n>>]
ArgSeq(s) == [kind |-> "seq", val |-> s]
AliasArgs == {ArgNone, ArgStr("lon"), ArgSeq(<<>>), ArgSeq(<<"lon">>)}
\* The same for the directions that are never given an extra name here
OtherAliasArgs == {ArgNone, ArgSeq(<<>>)}

\* A faulty set_dimension_names: the list given is stored as it is, without
\* the direction's own letter in front
NewAliasListAsGiven(old, key, value) ==
  IF value.kind # "none" THEN value.val ELSE old

\* A faulty set_dimension_names: the names given are added to those the
\* direction already has
NewAliasListAccumulates(old, key, value) ==
  IF value.kind # "none" THEN old \o value.val ELSE old

\* set_dimension_names: the new alias list of one direction
NewAliasList(old, key, value) ==
  IF value.kind = "str" THEN <<key, value.val[1]>>
  ELSE IF value.kind # "none" THEN <<key>> \o value.val
  ELSE old

SetDimensionNamesResult(reg, x, y, z) ==
  [d \in Directions |->
     NewAliasList(reg[d], d, IF d = "x" THEN x ELSE IF d = "y" THEN y ELSE z)]

\* ------------------------------------------------------------ exceptions
\* What a call gives back: a value, or a raised exception with its class and
\* which of the source's messages it carries.
Raise(exc, msg, dir) ==
  [status |-> "raise", exc |-> exc, msg |-> msg, direction |-> dir,
   out_names |-> <<>>, examined |-> FALSE, shape |-> <<>>, data |-> <<>>,
   view |-> FALSE]
Return ==
  [status |-> "ok", exc |-> "", msg |-> "", direction |-> "",
   out_names |-> <<>>, examined |-> FALSE, shape |-> <<>>, data |-> <<>>,
   view |-> FALSE]
NoResult ==
  [status |-> "none", exc |-> "", msg |-> "", direction |-> "",
   out_names |-> <<>>, examined |-> FALSE, shape |-> <<>>, data |-> <<>>,
   view |-> FALSE]

\* --------------------------------------------------- combine_dimensions
\* A faulty _ensure_no_invalid_directions: the wildcard passes as a direction
InvalidDirectionsButWildcard(od) == Range(od) \ {"x", "y", "z", "*"}

\* _ensure_no_invalid_directions: the invalid tokens of out_dims
InvalidDirections(od) == Range(od) \ {"x", "y", "z"}

\* all_names: the union of the arrays' dimension names
AllNames(arrs) == UNION {Range(arrs[i].dims) : i \in DOMAIN arrs}

\* A faulty loop body: one of several names of a direction is picked
CombineStepPicksOne(acc, direction, od, reg, all_names) ==
  IF acc.status = "raise" THEN acc
  ELSE LET names == all_names \cap Range(reg[direction]) IN
    IF direction \in Range(od) THEN
      IF Cardinality(names) >= 1 THEN
        [acc EXCEPT !.out_names[IndexOf(od, direction)] = CHOOSE n \in names : TRUE]
      ELSE
        [acc EXCEPT !.out_names[IndexOf(od, direction)] = direction]
    ELSE IF Cardinality(names) > 0 THEN
      [Raise("ValueError", "not_included", direction) EXCEPT !.examined = TRUE]
    ELSE acc

\* A faulty loop body: a direction left out of out_dims is never reported
CombineStepIgnoresExcluded(acc, direction, od, reg, all_names) ==
  IF acc.status = "raise" THEN acc
  ELSE LET names == all_names \cap Range(reg[direction]) IN
    IF direction \in Range(od) THEN
      IF Cardinality(names) > 1 THEN
        [Raise("ValueError", "multiple", direction) EXCEPT !.examined = TRUE]
      ELSE IF Cardinality(names) = 1 THEN
        [acc EXCEPT !.out_names[IndexOf(od, direction)] = CHOOSE n \in names : TRUE]
      ELSE
        [acc EXCEPT !.out_names[IndexOf(od, direction)] = direction]
    ELSE acc

\* The body of the loop over dim_names.items() for one direction: acc is the
\* result so far (out_names filled in up to here, or the exception raised).
CombineStep(acc, direction, od, reg, all_names) ==
  IF acc.status = "raise" THEN acc
  ELSE LET names == all_names \cap Range(reg[direction]) IN
    IF direction \in Range(od) THEN
      IF Cardinality(names) > 1 THEN
        [Raise("ValueError", "multiple", direction) EXCEPT !.examined = TRUE]
      ELSE IF Cardinality(names) = 1 THEN
        [acc EXCEPT !.out_names[IndexOf(od, direction)] = CHOOSE n \in names : TRUE]
      ELSE
        [acc EXCEPT !.out_names[IndexOf(od, direction)] = direction]
    ELSE IF Cardinality(names) > 0 THEN
      [Raise("ValueError", "not_included", direction) EXCEPT !.examined = TRUE]
    ELSE acc

RECURSIVE CombineLoop(_, _, _, _, _)
CombineLoop(acc, order, od, reg, all_names) ==
  IF order = <<>> THEN acc
  ELSE CombineLoop(CombineStep(acc, Head(order), od, reg, all_names),
                   Tail(order), od, reg, all_names)

\* A faulty loop body: names is the registry's own list cut down to the names
\* the arrays have, so names.pop() takes the name out of the registry
DirNamesAfterPopInPlace(dir_names, names) ==
  LET Kept(n) == n \notin names IN SelectSeq(dir_names, Kept)

\* names = all_names.intersection(dir_names) is a new set: names.pop() takes
\* the name out of that set and leaves the registry's list dir_names alone
DirNamesAfterPop(dir_names, names) == dir_names

\* The registry after combine_dimensions: the loop runs when out_dims is
\* valid, and pops the one name of each direction of out_dims that has one
DimNamesAfterCombine(arrs, od, reg) ==
  IF InvalidDirections(od) # {} THEN reg
  ELSE [d \in DOMAIN reg |->
          LET names == AllNames(arrs) \cap Range(reg[d]) IN
          IF d \in Range(od) /\ Cardinality(names) = 1
          THEN DirNamesAfterPop(reg[d], names)
          ELSE reg[d]]

\* combine_dimensions(arrays, out_dims); order is the order in which the
\* dictionary dim_names is iterated.
CombineDimensions(arrs, od, reg, order) ==
  IF InvalidDirections(od) # {} THEN Raise("ValueError", "invalid_direction", "")
  ELSE CombineLoop(
         [Return EXCEPT !.out_names = [i \in DOMAIN od |-> NoneName],
                        !.examined = TRUE],
         order, od, reg, AllNames(arrs))

\* ------------------------------------------------------------- ndarrays
\* The elements 1..n of a freshly made array of n elements
Iota(n) == [k \in 1..n |-> k]

\* The index tuple (0-based per axis) of row-major offset k (0-based)
Unravel(k, shape) ==
  [i \in DOMAIN shape |->
     (k \div Product(SubSeq(shape, i + 1, Len(shape)))) % shape[i]]

\* The row-major offset (0-based) of an index tuple
RECURSIVE Ravel(_, _)
Ravel(idx, shape) ==
  IF idx = <<>> THEN 0
  ELSE Head(idx) * Product(Tail(shape)) + Ravel(Tail(idx), Tail(shape))

\* The element of an array at an index tuple
At(arr, idx) == arr.data[Ravel(idx, arr.shape) + 1]

\* An array given by its shape and its element at every index tuple
MakeArray(shape, f(_)) ==
  [shape |-> shape, data |-> [k \in 1..Product(shape) |-> f(Unravel(k - 1, shape))]]

\* numpy.transpose(a, axes): axis i of the result is axis axes[i] of a
NpTranspose(arr, axes) ==
  LET shape == [i \in DOMAIN axes |-> arr.shape[axes[i]]]
      Pos(j) == CHOOSE i \in DOMAIN axes : axes[i] = j
      Elem(idx) == At(arr, [j \in DOMAIN arr.shape |-> idx[Pos(j)]])
  IN MakeArray(shape, Elem)

\* DataArray.transpose(*order) of xarray.  No names: the axes reversed.  A
\* permutation of dims: the axes permuted.  Anything else (a repeated name, a
\* name left out): a ValueError, except that xarray releases whose
\* Variable.transpose returns early for fewer than two names give the array
\* back unchanged when a single name is passed.  The result is the set of
\* outcomes over those releases.
XrTranspose(da, order) ==
  LET n == Len(da.dims)
      arr == [shape |-> da.shape, data |-> da.data]
  IN IF order = <<>> THEN
       {[status |-> "ok", dims |-> [i \in 1..n |-> da.dims[n + 1 - i]],
         arr |-> NpTranspose(arr, [i \in 1..n |-> n + 1 - i])]}
     ELSE IF Len(order) = n /\ Range(order) = Range(da.dims) THEN
       {[status |-> "ok", dims |-> order,
         arr |-> NpTranspose(arr, [i \in 1..n |-> IndexOf(da.dims, order[i])])]}
     ELSE {[status |-> "raise", dims |-> <<>>, arr |-> arr]}
          \cup (IF Len(order) < 2
                THEN {[status |-> "ok", dims |-> da.dims, arr |-> arr]}
                ELSE {})

\* One entry of the index list: a slice(0, stop) or None
SliceTo(stop) == [none |-> FALSE, stop |-> stop]
NoneIndex == [none |-> TRUE, stop |-> 0]

\* ndarray[index] for a non-empty list of slices and Nones, which numpy
\* reads as a tuple: a None adds an axis of length 1, the k-th slice cuts
\* axis k to its first stop elements, the axes after the last slice are kept.
NumSlices(index) == Cardinality({i \in DOMAIN index : ~index[i].none})
IndexTuple(arr, index) ==
  LET \* the source axis of position i of the index list (0 for a None)
      Axis(i) == IF index[i].none THEN 0
                 ELSE Cardinality({j \in 1..i : ~index[j].none})
      rest == SubSeq(arr.shape, NumSlices(index) + 1, Len(arr.shape))
      shape == [i \in DOMAIN index |->
                  IF index[i].none THEN 1
                  ELSE Min(index[i].stop, arr.shape[Axis(i)])] \o rest
      \* positions of the result that are axes of the source, in order
      kept == {i \in DOMAIN shape : i > Len(index) \/ ~index[i].none}
      KeptPos(a) == CHOOSE i \in kept : Cardinality({j \in kept : j <= i}) = a
      Elem(idx) == At(arr, [a \in DOMAIN arr.shape |-> idx[KeptPos(a)]])
  IN MakeArray(shape, Elem)

\* ndarray.reshape(shape) succeeds iff the sizes agree; the elements keep
\* their row-major order
CanReshape(arr, shape) == Product(arr.shape) = Product(shape)
Reshape(arr, shape) == [shape |-> shape, data |-> arr.data]

\* ------------------------------------------------------- views and copies
\* The strides, in elements, of a freshly made (C-contiguous) array
CStrides(shape) == [i \in DOMAIN shape |-> Product(SubSeq(shape, i + 1, Len(shape)))]

\* The strides after ndarray[index] for a non-empty list of slices and Nones
\* (basic indexing, a view): 0 for the axis a None adds, the stride of the
\* axis for a slice from 0, the strides of the axes after the last slice kept
IndexTupleStrides(strides, index) ==
  LET Axis(i) == Cardinality({j \in 1..i : ~index[j].none})
  IN [i \in DOMAIN index |-> IF index[i].none THEN 0 ELSE strides[Axis(i)]]
     \o SubSeq(strides, NumSlices(index) + 1, Len(strides))

\* s without the entries of the axes of length 1, which reshape ignores
Squeeze(s, shape) ==
  LET RECURSIVE F(_)
      F(i) == IF i > Len(shape) THEN <<>>
              ELSE (IF shape[i] # 1 THEN <<s[i]>> ELSE <<>>) \o F(i + 1)
  IN F(1)

\* ndarray.reshape returns a view when the new axes can be laid over the old
\* ones without moving an element: old and new axes are taken in groups of
\* equal size, oj old axes against nj new ones, and the old axes of a group
\* must follow one another in memory.
RECURSIVE ReshapeGroup(_, _, _, _)
ReshapeGroup(olddims, newdims, oj, nj) ==
  LET oldsize == Product(SubSeq(olddims, 1, oj))
      newsize == Product(SubSeq(newdims, 1, nj))
  IN IF newsize = oldsize THEN <<oj, nj>>
     ELSE IF newsize < oldsize THEN ReshapeGroup(olddims, newdims, oj, nj + 1)
     ELSE ReshapeGroup(olddims, newdims, oj + 1, nj)

RECURSIVE ReshapeIsView(_, _, _)
ReshapeIsView(olddims, oldstrides, newdims) ==
  IF olddims = <<>> \/ newdims = <<>> THEN TRUE
  ELSE LET g == ReshapeGroup(olddims, newdims, 1, 1)
           oj == g[1]
           nj == g[2]
       IN /\ \A ok \in 1..(oj - 1) :
               oldstrides[ok] = olddims[ok + 1] * oldstrides[ok + 1]
          /\ ReshapeIsView(SubSeq(olddims, oj + 1, Len(olddims)),
                           SubSeq(oldstrides, oj + 1, Len(oldstrides)),
                           SubSeq(newdims, nj + 1, Len(newdims)))

\* -------------------------------------------------------- get_numpy_array
\* len(data_array.coords[name]): the length of the axis called name
AxisLen(da, name) == da.shape[IndexOf(da.dims, name)]

\* Iterating a Python set gives its elements in hash order; rank lists the
\* names in the hash order of this process.
SetIter(S, rank) == InOrderOf(rank, S)

\* get_input_array_dim_names: the out_dims tokens that dim_names[direction]
\* cannot look up
UnknownDirections(od, reg) == {t \in Range(od) : t # Wildcard /\ t \notin DOMAIN reg}

\* get_input_array_dim_names, when every lookup succeeds: direction -> the
\* set of matching dimension names, each set in its iteration order
GetInputArrayDimNames(da, od, reg, rank) ==
  LET explicit == Range(od) \ {Wildcard}
      Matched(d) == Range(da.dims) \cap Range(reg[d])
      claimed == UNION {Matched(d) : d \in explicit}
  IN [d \in Range(od) |->
        IF d = Wildcard THEN SetIter(Range(da.dims) \ claimed, rank)
        ELSE SetIter(Matched(d), rank)]

\* A faulty get_target_dimension_order: the directions taken last to first
GetTargetDimensionOrderReversed(od, d2n) ==
  Concat([i \in DOMAIN od |-> d2n[od[Len(od) + 1 - i]]])

\* get_target_dimension_order
GetTargetDimensionOrder(od, d2n) == Concat([i \in DOMAIN od |-> d2n[od[i]]])

\* get_slices_and_placeholder_nones raises for the directions in this set
MultipleDimsDirections(od, d2n) ==
  {d \in Range(od) : d # Wildcard /\ Len(d2n[d]) > 1}

\* get_slices_and_placeholder_nones, when it does not raise
GetSlicesAndPlaceholderNones(da, od, d2n) ==
  Concat([i \in DOMAIN od |->
            IF Len(d2n[od[i]]) = 0 THEN <<NoneIndex>>
            ELSE [k \in DOMAIN d2n[od[i]] |-> SliceTo(AxisLen(da, d2n[od[i]][k]))]])

\* A faulty get_final_shape: no length 1 for a direction without names
GetFinalShapeNoSynthetic(da, od, d2n) ==
  Concat([i \in DOMAIN od |->
            IF Len(d2n[od[i]]) = 0 THEN <<>>
            ELSE <<Product([k \in DOMAIN d2n[od[i]] |-> AxisLen(da, d2n[od[i]][k])])>>])

\* get_final_shape
GetFinalShape(da, od, d2n) ==
  [i \in DOMAIN od |->
     IF Len(d2n[od[i]]) = 0 THEN 1
     ELSE Product([k \in DOMAIN d2n[od[i]] |-> AxisLen(da, d2n[od[i]][k])])]

\* .values[slices_or_none].reshape(final_shape) of a transposed array
IndexAndReshape(arr, slices_or_none, final_shape) ==
  IF slices_or_none = <<>> THEN
    \* an empty list is an empty index array: no element is selected
    IF arr.shape = <<>> THEN Raise("IndexError", "too_many_indices", "")
    ELSE Raise("ValueError", "reshape", "")
  ELSE LET v == IndexTuple(arr, slices_or_none) IN
    IF CanReshape(v, final_shape)
    THEN [Return EXCEPT !.shape = final_shape, !.data = Reshape(v, final_shape).data]
    ELSE Raise("ValueError", "reshape", "")

\* A faulty builder: one that makes the transposed array contiguous before it
\* indexes it, which copies it unless the transpose changed nothing
SharesBufferIfContiguous(da, dims, slices_or_none, final_shape) ==
  LET axes == [i \in DOMAIN dims |-> IndexOf(da.dims, dims[i])]
      shape == [i \in DOMAIN axes |-> da.shape[axes[i]]]
      strides == [i \in DOMAIN axes |-> CStrides(da.shape)[axes[i]]]
  IN Squeeze(strides, shape) = CStrides(Squeeze(shape, shape))

\* Whether transposed.values[slices_or_none].reshape(final_shape) is a view of
\* data_array.values, whose axes the transposed array has in the order dims:
\* the transpose and the index are views, so the reshape decides.
SharesBuffer(da, dims, slices_or_none, final_shape) ==
  LET axes == [i \in DOMAIN dims |-> IndexOf(da.dims, dims[i])]
      shape == [i \in DOMAIN axes |-> da.shape[axes[i]]]
      strides == [i \in DOMAIN axes |-> CStrides(da.shape)[axes[i]]]
      v == IndexTuple([shape |-> shape, data |-> da.data], slices_or_none)
      vstrides == IndexTupleStrides(strides, slices_or_none)
  IN ReshapeIsView(Squeeze(v.shape, v.shape), Squeeze(vstrides, v.shape), final_shape)

\* get_numpy_array(data_array, out_dims): the set of its possible outcomes
GetNumpyArray(da, od, reg, rank) ==
  IF UnknownDirections(od, reg) # {} THEN
    {Raise("KeyError", "lookup", CHOOSE t \in UnknownDirections(od, reg) : TRUE)}
  ELSE LET d2n == GetInputArrayDimNames(da, od, reg, rank)
           target_dimension_order == GetTargetDimensionOrder(od, d2n)
       IN IF MultipleDimsDirections(od, d2n) # {} THEN
            {Raise("ValueError", "multiple", "")}
          ELSE {IF t.status = "raise" THEN Raise("ValueError", "transpose", "")
                ELSE LET slices_or_none == GetSlicesAndPlaceholderNones(da, od, d2n)
                         final_shape == GetFinalShape(da, od, d2n)
                         r == IndexAndReshape(t.arr, slices_or_none, final_shape)
                     IN IF r.status # "ok" THEN r
                        ELSE [r EXCEPT !.view = SharesBuffer(da, t.dims, slices_or_none,
                                                             final_shape)]
                : t \in XrTranspose(da, target_dimension_order)}

\* ----------------------------------------------------- restore_dimensions
NoAttrs == {}
NoRestored == [status |-> "none", dims |-> <<>>, shape |-> <<>>, data |-> <<>>,
               attrs |-> NoAttrs]
RaiseRestore == [NoRestored EXCEPT !.status = "raise"]

\* The result_attrs argument: left out, or an attribute map
AttrsNotSupplied == [supplied |-> FALSE, val |-> NoAttrs]
AttrsGiven(a) == [supplied |-> TRUE, val |-> a]
\* result_attrs = {} by default
ResultAttrsOrDefault(given) == IF given.supplied THEN given.val ELSE NoAttrs

\* A faulty restore_dimensions: the attributes of result_like are kept,
\* those of result_attrs written over them
RestoreDimensionsKeepsAttrs(raw, from_dims, like, given, d2n) ==
  LET original_dims == GetTargetDimensionOrder(from_dims, d2n)
      original_shape == [i \in DOMAIN original_dims |-> AxisLen(like, original_dims[i])]
      n == Len(like.dims)
      new == ResultAttrsOrDefault(given)
      kept == {p \in like.attrs : \A q \in new : q[1] # p[1]}
  IN IF ~CanReshape(raw, original_shape) THEN RaiseRestore
     ELSE IF ~(Len(original_dims) = n /\ Range(original_dims) = Range(like.dims))
     THEN RaiseRestore
     ELSE LET t == NpTranspose(Reshape(raw, original_shape),
                               [i \in 1..n |-> IndexOf(original_dims, like.dims[i])])
          IN [status |-> "ok", dims |-> like.dims, shape |-> t.shape,
              data |-> t.data, attrs |-> kept \cup new]

\* restore_dimensions(raw, from_dims, result_like, result_attrs); d2n is the
\* direction -> names assignment resolved against result_like.
RestoreDimensions(raw, from_dims, like, given, d2n) ==
  LET original_dims == GetTargetDimensionOrder(from_dims, d2n)
      original_shape == [i \in DOMAIN original_dims |-> AxisLen(like, original_dims[i])]
      n == Len(like.dims)
  IN IF ~CanReshape(raw, original_shape) THEN RaiseRestore
     ELSE IF ~(Len(original_dims) = n /\ Range(original_dims) = Range(like.dims))
     THEN RaiseRestore
     ELSE LET t == NpTranspose(Reshape(raw, original_shape),
                               [i \in 1..n |-> IndexOf(original_dims, like.dims[i])])
          IN [status |-> "ok", dims |-> like.dims, shape |-> t.shape,
              data |-> t.data, attrs |-> ResultAttrsOrDefault(given)]

\* ----------------------------------------------------------------- inputs
DataArraysOf(names, maxdims) ==
  UNION {{[dims |-> d, shape |-> s, data |-> Iota(Product(s))]
          : s \in [DOMAIN d -> 1..MaxLen]}
         : d \in InjSeqsUpTo(names, maxdims)}

DataArrays == DataArraysOf(Names, MaxDims)
\* combine_dimensions reads only the dims of its arrays
CombineArrays == {[dims |-> d] : d \in InjSeqsUpTo(Names, MaxCombineDims)}
OutDims == SeqsUpTo(Tokens, MaxOutDims)
ResultAttrs == {NoAttrs, {<<"units", "K">>}}
ResultAttrsArgs == {AttrsNotSupplied} \cup {AttrsGiven(a) : a \in ResultAttrs}
\* The attributes of the array given as result_like
TemplateAttrs == {NoAttrs, {<<"units", "">>}}

\* ------------------------------------------------- UpdateFrequencyWrapper
\* Times and timedeltas are whole numbers of some unit of time.  None, of
\* a time and of an output:
NoTime == -1
NoOutput == "<None>"
Times == 0..MaxTime
Timedeltas == -1..MaxDelta
\* What the wrapped prognostic gives back when called: an output, or it raises
Outputs == {"a", "b"}
Raises == "<raises>"
PrognosticOutcomes == Outputs \cup {Raises}

\* A faulty condition: the update is made whenever the time has not gone
\* back, however little has passed
ShouldUpdateIgnoringDelta(last, time, delta) ==
  last = NoTime \/ time >= last

\* A faulty condition: the update waits until more than update_timedelta
\* has passed
ShouldUpdateStrictly(last, time, delta) ==
  last = NoTime \/ time > last + delta

\* The condition of __call__: new output is computed
ShouldUpdate(last, time, delta) ==
  last = NoTime \/ time >= last + delta

\* The record of one call: the time it was given, whether it called the
\* prognostic, whether that raised, what the prognostic gave back, what the
\* call returned, and self._last_update_time when it ended
CallRecord(time, invoked, raised, output, returned, stored) ==
  [time |-> time, invoked |-> invoked, raised |-> raised, output |-> output,
   returned |-> returned, stored |-> stored]

\* --------------------------------------- get_numpy_arrays_with_properties
\* A dictionary keyed by quantity names is a function on Quantities whose
\* entries say whether the key is present.
Quantities == {"air_temperature", "air_pressure", "eastward_wind"}
Keys(d) == {q \in Quantities : d[q].present}

\* Values are in hundredths of their unit; degC = degK - 273.15
KelvinOffset == 27315
NoUnits == "<no units>"
UnitsOf(arr) ==
  IF \E p \in arr.attrs : p[1] = "units"
  THEN (CHOOSE p \in arr.attrs : p[1] = "units")[2]
  ELSE NoUnits
ConvertValue(v, from, to) ==
  IF from = to THEN v
  ELSE IF from = "degK" /\ to = "degC" THEN v - KelvinOffset
  ELSE IF from = "degC" /\ to = "degK" THEN v + KelvinOffset
  ELSE v

\* The entries of a state, of a property dictionary and of a result
AbsentQuantity ==
  [present |-> FALSE, dims |-> <<>>, shape |-> <<>>, data |-> <<>>, attrs |-> NoAttrs]
StateQuantity(data, attrs) ==
  [present |-> TRUE, dims |-> <<"z">>, shape |-> <<Len(data)>>, data |-> data,
   attrs |-> attrs]
NotRequested ==
  [present |-> FALSE, has_dims |-> FALSE, dims |-> <<>>, has_units |-> FALSE, units |-> ""]
Property(has_dims, has_units, units) ==
  [present |-> TRUE, has_dims |-> has_dims,
   dims |-> IF has_dims THEN <<"x", "y", "z">> ELSE <<>>,
   has_units |-> has_units, units |-> IF has_units THEN units ELSE ""]
NotReturned == [present |-> FALSE, shape |-> <<>>, data |-> <<>>, view |-> FALSE]
Returned(shape, data, view) ==
  [present |-> TRUE, shape |-> shape, data |-> data, view |-> view]

NoOut == [q \in Quantities |-> NotReturned]
NoBatchResult == [status |-> "none", exc |-> "", missing |-> {}, out |-> NoOut]
BatchRaise(exc, missing) ==
  [status |-> "raise", exc |-> exc, missing |-> missing, out |-> NoOut]

\* The property specs that lack dims or units
Malformed(props) == {q \in Keys(props) : ~props[q].has_dims \/ ~props[q].has_units}

\* A faulty collection of the missing quantities: it stops at the first
MissingQuantitiesFirstOnly(st, props) ==
  LET missing == Keys(props) \ Keys(st)
  IN IF missing = {} THEN {} ELSE {CHOOSE q \in missing : TRUE}

\* The requested quantities the state does not have
MissingQuantities(st, props) == Keys(props) \ Keys(st)

\* The requested quantities of the state that have no units attribute
WithoutUnits(st, props) == {q \in Keys(props) \cap Keys(st) : UnitsOf(st[q]) = NoUnits}

\* The array in the requested units: the array itself when it has them,
\* otherwise a new array with the converted values
ToUnits(arr, units) ==
  IF UnitsOf(arr) = units THEN [array |-> arr, copied |-> FALSE]
  ELSE [array |-> [arr EXCEPT !.data = [k \in DOMAIN arr.data |->
                                          ConvertValue(arr.data[k], UnitsOf(arr), units)],
                              !.attrs = {<<"units", units>>}],
        copied |-> TRUE]

\* A faulty conversion: the values and the units of the source are
\* overwritten
SourceAfterToUnitsInPlace(arr, units) == ToUnits(arr, units).array

\* The source array after its conversion: as it was
SourceAfterToUnits(arr, units) == arr

\* The ways one quantity can be extracted: the view builder on the array in
\* the requested units
ExtractOne(arr, prop, reg) ==
  LET converted == ToUnits(arr, prop.units)
  IN {[r EXCEPT !.view = r.view /\ ~converted.copied] :
        r \in UNION {GetNumpyArray(converted.array, prop.dims, reg, rank)
                     : rank \in IterOrders(Range(arr.dims))}}

\* A faulty result: every quantity of the state is in it, the ones not
\* requested as they are
ResultOfAllQuantities(st, props, extracted) ==
  [q \in Quantities |->
     IF q \in Keys(props) THEN Returned(extracted[q].shape, extracted[q].data,
                                        extracted[q].view)
     ELSE IF q \in Keys(st) THEN Returned(st[q].shape, st[q].data, TRUE)
     ELSE NotReturned]

\* The result: one array for every requested quantity
ResultOfRequested(st, props, extracted) ==
  [q \in Quantities |->
     IF q \in Keys(props) THEN Returned(extracted[q].shape, extracted[q].data,
                                        extracted[q].view)
     ELSE NotReturned]

\* get_numpy_arrays_with_properties(state, property_dictionary): the set of
\* its possible outcomes
GetNumpyArraysWithProperties(st, props, reg) ==
  IF Malformed(props) # {} THEN {BatchRaise("MissingAxisSpecError", {})}
  ELSE IF Keys(props) \ Keys(st) # {} THEN
    {BatchRaise("StateMismatchError", MissingQuantities(st, props))}
  ELSE IF WithoutUnits(st, props) # {} THEN {BatchRaise("StateMismatchError", {})}
  ELSE LET Ways(q) == IF q \in Keys(props) THEN ExtractOne(st[q], props[q], reg)
                      ELSE {NoResult}
       IN {IF \E q \in Keys(props) : extracted[q].status = "raise"
           THEN BatchRaise("ViewBuilderError", {})
           ELSE [status |-> "ok", exc |-> "", missing |-> {},
                 out |-> ResultOfRequested(st, props, extracted)]
           : extracted \in {f \in [Quantities -> UNION {Ways(q) : q \in Quantities}]
                              : \A q \in Quantities : f[q] \in Ways(q)}}

\* The state after the call: the quantities that were converted
StateAfterExtraction(st, props) ==
  [q \in Quantities |->
     IF /\ Malformed(props) = {} /\ Keys(props) \ Keys(st) = {}
        /\ WithoutUnits(st, props) = {}
        /\ q \in Keys(props) /\ UnitsOf(st[q]) # props[q].units
     THEN SourceAfterToUnits(st[q], props[q].units)
     ELSE st[q]]

\* The states and property dictionaries of the model
Temperatures ==
  {AbsentQuantity, StateQuantity(<<0>>, NoAttrs),
   StateQuantity(<<0>>, {<<"units", "degK">>}),
   StateQuantity(<<28000, 28100>>, {<<"units", "degK">>}),
   StateQuantity(<<0>>, {<<"units", "degC">>})}
Pressures ==
  {AbsentQuantity, StateQuantity(<<0, 0>>, NoAttrs),
   StateQuantity(<<0, 0>>, {<<"units", "Pa">>})}
Winds ==
  {AbsentQuantity, StateQuantity(<<0, 0>>, NoAttrs),
   StateQuantity(<<0, 0>>, {<<"units", "m/s">>})}
States ==
  {[q \in Quantities |-> IF q = "air_temperature" THEN t
                         ELSE IF q = "air_pressure" THEN p ELSE w]
   : t \in Temperatures, p \in Pressures, w \in Winds}
TemperatureProperties ==
  {NotRequested, Property(TRUE, TRUE, "degK"), Property(TRUE, TRUE, "degC"),
   Property(FALSE, TRUE, "degK"), Property(TRUE, FALSE, "")}
PressureProperties ==
  {NotRequested, Property(TRUE, TRUE, "Pa"), Property(TRUE, FALSE, "")}
WindProperties == {NotRequested, Property(TRUE, TRUE, "m/s")}
PropertyDictionaries ==
  {[q \in Quantities |-> IF q = "air_temperature" THEN t
                         ELSE IF q = "air_pressure" THEN p ELSE w]
   : t \in TemperatureProperties, p \in PressureProperties, w \in WindProperties}
NoProperties == [q \in Quantities |-> NotRequested]

\* ------------------------------------------- update_dict_by_adding_another
\* A dictionary is a function on DictKeys whose entries say whether the key
\* is present.  A value is an array-like object, held by reference into the
\* heap and changed by an in-place addition, or a number, which no
\* operation changes.
DictKeys == {"a", "b"}
Dict2Names == {"first", "second"}
NoEntry == [present |-> FALSE, kind |-> "", ref |-> 0, val |-> 0]
ArrayEntry(ref) == [present |-> TRUE, kind |-> "array", ref |-> ref, val |-> 0]
NumberEntry(val) == [present |-> TRUE, kind |-> "number", ref |-> 0, val |-> val]
\* The contents of a value
ValueOf(h, e) == IF e.kind = "array" THEN h[e.ref] ELSE e.val
\* What a dictionary holds: its keys and the contents of their values
Holds(h, d) ==
  [k \in DictKeys |->
     [present |-> d[k].present, val |-> IF d[k].present THEN ValueOf(h, d[k]) ELSE 0]]

\* The body of the loop for one key of dict2, on heap h: the heap and dict1
\* after it
AddKey(h, d1, d2, key) ==
  IF ~d1[key].present THEN
    \* dict1[key] = dict2[key]: dict1 now holds the object dict2 holds
    [heap |-> h, dict1 |-> [d1 EXCEPT ![key] = d2[key]]]
  ELSE IF d1[key].kind = "array" THEN
    \* dict1[key][:] += dict2[key][:], or after the TypeError of a number's
    \* [:], dict1[key] += dict2[key]: both add into the object dict1 holds
    [heap |-> [h EXCEPT ![d1[key].ref] = h[d1[key].ref] + ValueOf(h, d2[key])],
     dict1 |-> d1]
  ELSE IF d2[key].kind = "array" THEN
    \* a number's [:] raises TypeError; dict1[key] += dict2[key] binds
    \* dict1[key] to the new array number + array
    [heap |-> Append(h, d1[key].val + h[d2[key].ref]),
     dict1 |-> [d1 EXCEPT ![key] = ArrayEntry(Len(h) + 1)]]
  ELSE
    \* dict1[key] += dict2[key] on numbers binds dict1[key] to the sum
    [heap |-> h,
     dict1 |-> [d1 EXCEPT ![key] = NumberEntry(d1[key].val + d2[key].val)]]

\* for key in dict2.keys(), the keys coming in the order keys
RECURSIVE UpdateLoop(_, _, _, _)
UpdateLoop(h, d1, d2, keys) ==
  IF keys = <<>> THEN [heap |-> h, dict1 |-> d1]
  ELSE LET r == AddKey(h, d1, d2, Head(keys))
       IN UpdateLoop(r.heap, r.dict1, d2, Tail(keys))

\* update_dict_by_adding_another(dict1, dict2); order is the order in which
\* a dictionary iterates over DictKeys
UpdateDictByAddingAnother(h, d1, d2, order) ==
  LET InDict2(k) == d2[k].present
  IN UpdateLoop(h, d1, d2, SelectSeq(order, InDict2))

\* The dictionaries a caller makes: every value is an object of its own.
\* The values of dict1 are 1, those of the first dict2 are 2 and those of the
\* second are 3.
DictNames == {"dict1"} \cup Dict2Names
InitialValue(name) == IF name = "dict1" THEN 1 ELSE IF name = "first" THEN 2 ELSE 3
RefOf(name, key) ==
  (IF name = "dict1" THEN 0 ELSE IF name = "first" THEN 2 ELSE 4)
    + (IF key = "a" THEN 1 ELSE 2)
InitialHeap == <<1, 1, 2, 2, 3, 3>>
EntriesOf(name, key) ==
  {NoEntry, ArrayEntry(RefOf(name, key)), NumberEntry(InitialValue(name))}
DictionariesOf(name) ==
  {d \in [DictKeys -> UNION {EntriesOf(name, k) : k \in DictKeys}] :
     \A k \in DictKeys : d[k] \in EntriesOf(name, k)}
NothingPassed == [k \in DictKeys |-> [times |-> 0, sum |-> 0]]
\* passed, after dict2 d2 has been passed on heap h
PassedAfter(p, h, d2) ==
  [k \in DictKeys |->
     IF d2[k].present
     THEN [times |-> p[k].times + 1, sum |-> p[k].sum + ValueOf(h, d2[k])]
     ELSE p[k]]

\* No dictionary has been made
EmptyDict == [k \in DictKeys |-> NoEntry]
NoDicts ==
  /\ heap = <<>>
  /\ dict1 = EmptyDict
  /\ dict2 = [n \in Dict2Names |-> EmptyDict]
  /\ made = [n \in DictNames |-> Holds(<<>>, EmptyDict)]
  /\ passed = NothingPassed
  /\ updates = 0

\* ------------------------------------------------------------ operations
\* The state holds the registry and the frame of the call that ran last: its
\* arguments and what it gave back.  A call starts when no frame is held
\* (op = "idle"); Forget is the caller dropping the frame.
NoDataArray == [dims |-> <<>>, shape |-> <<>>, data |-> <<1>>]

NoArgs == [d \in Directions |-> ArgNone]
NoTemplate == [dims |-> <<>>, shape |-> <<>>, data |-> <<1>>, attrs |-> NoAttrs]
\* data_array with an attribute map
WithAttrs(da, attrs) ==
  [dims |-> da.dims, shape |-> da.shape, data |-> da.data, attrs |-> attrs]

NoFrame ==
  /\ args = NoArgs
  /\ before = InitDimNames
  /\ result_like = NoTemplate
  /\ result_attrs = AttrsNotSupplied
  /\ arrays = <<>>
  /\ data_array = NoDataArray
  /\ out_dims = <<>>
  /\ direction_to_names = <<>>
  /\ ret = NoResult
  /\ restored = NoRestored

\* No state has been made
NoBatch ==
  /\ state = [q \in Quantities |-> AbsentQuantity]
  /\ properties = NoProperties
  /\ batch_ret = NoBatchResult

\* No UpdateFrequencyWrapper has been made
NoWrapper ==
  /\ update_timedelta = 0
  /\ cached_output = NoOutput
  /\ last_update_time = NoTime
  /\ calls = <<>>

Init ==
  /\ dim_names = InitDimNames
  /\ op = "idle"
  /\ NoFrame
  /\ NoWrapper
  /\ NoBatch
  /\ NoDicts

SetDimensionNames ==
  /\ op = "idle"
  /\ \E x \in AliasArgs, y \in OtherAliasArgs, z \in OtherAliasArgs :
       /\ args' = [d \in Directions |-> IF d = "x" THEN x ELSE IF d = "y" THEN y ELSE z]
       /\ dim_names' = SetDimensionNamesResult(dim_names, x, y, z)
  /\ before' = dim_names
  /\ op' = "set_dimension_names"
  /\ UNCHANGED <<arrays, data_array, out_dims, direction_to_names, ret, restored,
                 result_like, result_attrs>>
  /\ UNCHANGED <<wrapper_vars, batch_vars, dict_vars>>

CombineDimensionsCall ==
  /\ op = "idle"
  /\ \E arrs \in SeqsUpTo(CombineArrays, MaxArrays), od \in OutDims,
        order \in IterOrders(Directions) :
       /\ arrays' = arrs
       /\ out_dims' = od
       /\ ret' = CombineDimensions(arrs, od, dim_names, order)
       /\ dim_names' = DimNamesAfterCombine(arrs, od, dim_names)
  /\ op' = "combine_dimensions"
  /\ UNCHANGED <<data_array, direction_to_names, restored, args, before,
                 result_like, result_attrs>>
  /\ UNCHANGED <<wrapper_vars, batch_vars, dict_vars>>

GetNumpyArrayCall ==
  /\ op = "idle"
  /\ \E da \in DataArrays, od \in OutDims :
       \E rank \in IterOrders(Range(da.dims)) :
         \E r \in GetNumpyArray(da, od, dim_names, rank) :
           /\ data_array' = da
           /\ out_dims' = od
           /\ ret' = r
           /\ direction_to_names' =
                IF r.status = "ok" THEN GetInputArrayDimNames(da, od, dim_names, rank)
                ELSE <<>>
  /\ op' = "get_numpy_array"
  /\ UNCHANGED <<dim_names, arrays, restored, args, before,
                 result_like, result_attrs>>
  /\ UNCHANGED <<wrapper_vars, batch_vars, dict_vars>>

\* restore_dimensions(ret, from_dims=out_dims, result_like=data_array) on the
\* array the builder just returned; the sets it builds iterate in the same
\* order as the builder's did.
RestoreDimensionsCall ==
  /\ op = "get_numpy_array"
  /\ ret.status = "ok"
  /\ \E given \in ResultAttrsArgs, attrs \in TemplateAttrs :
       \E rank \in IterOrders(Range(data_array.dims)) :
         /\ GetInputArrayDimNames(data_array, out_dims, dim_names, rank)
              = direction_to_names
         /\ result_like' = WithAttrs(data_array, attrs)
         /\ result_attrs' = given
         /\ restored' = RestoreDimensions([shape |-> ret.shape, data |-> ret.data],
                                          out_dims, WithAttrs(data_array, attrs), given,
                                          direction_to_names)
  /\ op' = "restore_dimensions"
  /\ UNCHANGED <<dim_names, arrays, data_array, out_dims, direction_to_names, ret,
                 args, before>>
  /\ UNCHANGED <<wrapper_vars, batch_vars, dict_vars>>

Forget ==
  /\ op # "idle"
  /\ op' = "idle"
  /\ arrays' = <<>>
  /\ data_array' = NoDataArray
  /\ out_dims' = <<>>
  /\ direction_to_names' = <<>>
  /\ ret' = NoResult
  /\ restored' = NoRestored
  /\ args' = NoArgs
  /\ before' = InitDimNames
  /\ result_like' = NoTemplate
  /\ result_attrs' = AttrsNotSupplied
  /\ UNCHANGED dim_names
  /\ UNCHANGED <<wrapper_vars, batch_vars, dict_vars>>

Next ==
  \/ SetDimensionNames
  \/ CombineDimensionsCall
  \/ GetNumpyArrayCall
  \/ RestoreDimensionsCall
  \/ Forget

Spec == Init /\ [][Next]_vars

\* ---------------------------------------- UpdateFrequencyWrapper: operations
\* UpdateFrequencyWrapper(prognostic, update_timedelta)
InitWrapper ==
  /\ update_timedelta \in Timedeltas
  /\ cached_output = NoOutput
  /\ last_update_time = NoTime
  /\ calls = <<>>
  /\ dim_names = InitDimNames
  /\ op = "idle"
  /\ NoFrame
  /\ NoBatch
  /\ NoDicts

\* wrapper(state) with state['time'] = time; outcome is what the prognostic
\* does if it is called
WrapperCall ==
  /\ Len(calls) < MaxCalls
  /\ \E time \in Times :
       IF ShouldUpdate(last_update_time, time, update_timedelta) THEN
         \E outcome \in PrognosticOutcomes :
           IF outcome = Raises THEN
             \* the exception leaves __call__ before either field is assigned
             /\ calls' = Append(calls, CallRecord(time, TRUE, TRUE, NoOutput, NoOutput,
                                                  last_update_time))
             /\ UNCHANGED <<cached_output, last_update_time>>
           ELSE
             /\ cached_output' = outcome
             /\ last_update_time' = time
             /\ calls' = Append(calls, CallRecord(time, TRUE, FALSE, outcome, outcome,
                                                  time))
       ELSE
         /\ calls' = Append(calls, CallRecord(time, FALSE, FALSE, NoOutput, cached_output,
                                              last_update_time))
         /\ UNCHANGED <<cached_output, last_update_time>>
  /\ UNCHANGED <<update_timedelta, dim_names, op, arrays, data_array, out_dims,
                 direction_to_names, ret, restored, args, before, result_like,
                 result_attrs, batch_vars, dict_vars>>

NextWrapper == WrapperCall

SpecWrapper == InitWrapper /\ [][NextWrapper]_vars

\* ------------------------------ get_numpy_arrays_with_properties: operations
InitBatch ==
  /\ state \in States
  /\ properties = NoProperties
  /\ batch_ret = NoBatchResult
  /\ dim_names = InitDimNames
  /\ op = "idle"
  /\ NoFrame
  /\ NoWrapper
  /\ NoDicts

GetNumpyArraysWithPropertiesCall ==
  /\ \E props \in PropertyDictionaries :
       /\ properties' = props
       /\ batch_ret' \in GetNumpyArraysWithProperties(state, props, dim_names)
       /\ state' = StateAfterExtraction(state, props)
  /\ UNCHANGED <<dim_names, op, arrays, data_array, out_dims, direction_to_names, ret,
                 restored, args, before, result_like, result_attrs, wrapper_vars,
                 dict_vars>>

NextBatch == GetNumpyArraysWithPropertiesCall

SpecBatch == InitBatch /\ [][NextBatch]_vars

\* ----------------------------- update_dict_by_adding_another: operations
\* The caller makes dict1 and two dictionaries to pass as dict2
InitDicts ==
  /\ heap = InitialHeap
  /\ dict1 \in DictionariesOf("dict1")
  /\ dict2 \in {f \in [Dict2Names -> UNION {DictionariesOf(n) : n \in Dict2Names}] :
                  \A n \in Dict2Names : f[n] \in DictionariesOf(n)}
  /\ made = [n \in DictNames |->
               Holds(InitialHeap, IF n = "dict1" THEN dict1 ELSE dict2[n])]
  /\ passed = NothingPassed
  /\ updates = 0
  /\ dim_names = InitDimNames
  /\ op = "idle"
  /\ NoFrame
  /\ NoWrapper
  /\ NoBatch

\* update_dict_by_adding_another(dict1, dict2[n])
UpdateDictByAddingAnotherCall ==
  /\ updates < MaxUpdates
  /\ \E n \in Dict2Names, order \in IterOrders(DictKeys) :
       LET r == UpdateDictByAddingAnother(heap, dict1, dict2[n], order)
       IN /\ heap' = r.heap
          /\ dict1' = r.dict1
          /\ passed' = PassedAfter(passed, heap, dict2[n])
  /\ updates' = updates + 1
  /\ UNCHANGED <<dict2, made>>
  /\ UNCHANGED <<dim_names, op, arrays, data_array, out_dims, direction_to_names, ret,
                 restored, args, before, result_like, result_attrs, wrapper_vars,
                 batch_vars>>

NextDicts == UpdateDictByAddingAnotherCall

SpecDicts == InitDicts /\ [][NextDicts]_vars

\* ================================================================ claims
\* Vocabulary of the claims, stated on the frame of the last call.
BuilderRan == op \in {"get_numpy_array", "restore_dimensions"}
BuilderOk == BuilderRan /\ ret.status = "ok"
ResolverRan == op = "combine_dimensions"

\* The axes of data_array that are aliases of out_dims token t
MatchedAxes(t) ==
  {a \in DOMAIN data_array.dims :
     t \in DOMAIN dim_names /\ data_array.dims[a] \in Range(dim_names[t])}
\* The positions of out_dims whose token matches axis a
MatchingPositions(a) == {k \in DOMAIN out_dims : a \in MatchedAxes(out_dims[k])}
\* The axes the wildcard collects: those matched by no out_dims entry
CollectedAxes == {a \in DOMAIN data_array.dims : MatchingPositions(a) = {}}
\* The lengths of a set of axes, in declared order
LengthsOf(axes) ==
  LET RECURSIVE F(_)
      F(a) == IF a > Len(data_array.dims) THEN <<>>
              ELSE (IF a \in axes THEN <<data_array.shape[a]>> ELSE <<>>) \o F(a + 1)
  IN F(1)
\* The position of axis a among a set of axes, in declared order
PlaceAmong(a, axes) == Cardinality({b \in axes : b <= a})
\* All index tuples of an array of a given shape
Indices(shape) == {Unravel(k, shape) : k \in 0..(Product(shape) - 1)}
RetArray == [shape |-> ret.shape, data |-> ret.data]
InputArray == [shape |-> data_array.shape, data |-> data_array.data]

\* C1 (as claimed): restore_dimensions(get_numpy_array(A, P), P, A) succeeds
\* for every P the builder accepted and gives back A's dimension names in A's
\* order and A's values element for element.
C1_RoundTrip ==
  op = "restore_dimensions" =>
    /\ restored.status = "ok"
    /\ restored.dims = data_array.dims
    /\ restored.shape = data_array.shape
    /\ restored.data = data_array.data

\* The round trip does hold whenever the builder dropped no axis of A, i.e.
\* out_dims has a wildcard or every axis is matched by an entry.
RoundTripWhenNothingDropped ==
  (op = "restore_dimensions" /\ (Wildcard \in Range(out_dims) \/ CollectedAxes = {})) =>
    /\ restored.status = "ok"
    /\ restored.dims = data_array.dims
    /\ restored.shape = data_array.shape
    /\ restored.data = data_array.data

\* C2: when get_numpy_array succeeds the result has len(out_dims) axes; a
\* non-wildcard position has the length of the matched axis of A, or 1 when
\* none matches; the wildcard position has the product of the lengths of the
\* collected axes.
C2_ExpectedLen(k) ==
  IF out_dims[k] = Wildcard THEN Product(LengthsOf(CollectedAxes))
  ELSE IF MatchedAxes(out_dims[k]) = {} THEN 1
  ELSE data_array.shape[CHOOSE a \in MatchedAxes(out_dims[k]) : TRUE]
C2_FinalShape ==
  BuilderOk =>
    /\ Len(ret.shape) = Len(out_dims)
    /\ \A k \in DOMAIN out_dims : ret.shape[k] = C2_ExpectedLen(k)
\* a wildcard that collected two axes of length 2, next to a matched axis
\* and a synthetic one
C2_Witness ==
  /\ op = "get_numpy_array" /\ ret.status = "ok"
  /\ \E k, m, j \in DOMAIN out_dims :
       /\ out_dims[k] = Wildcard /\ Cardinality(CollectedAxes) = 2 /\ ret.shape[k] = 4
       /\ out_dims[m] # Wildcard /\ MatchedAxes(out_dims[m]) # {} /\ ret.shape[m] = 2
       /\ out_dims[j] # Wildcard /\ MatchedAxes(out_dims[j]) = {} /\ ret.shape[j] = 1

\* C3: without a wildcard and with every axis of A matched by exactly one
\* entry of out_dims, the element of the result at (i_0, ..., i_{n-1}) is the
\* element of A whose index along the axis matched to out_dims[k] is i_k.
C3_Applies ==
  /\ BuilderOk
  /\ Wildcard \notin Range(out_dims)
  /\ \A a \in DOMAIN data_array.dims : Cardinality(MatchingPositions(a)) = 1
C3_SourceIndex(idx) ==
  [a \in DOMAIN data_array.dims |-> idx[CHOOSE k \in MatchingPositions(a) : TRUE]]
C3_Elements ==
  C3_Applies =>
    \A idx \in Indices(ret.shape) :
      At(RetArray, idx) = At(InputArray, C3_SourceIndex(idx))
\* dims [x, y, z] read as [z, y, x], every axis of length 2
C3_Witness ==
  /\ op = "get_numpy_array" /\ C3_Applies
  /\ data_array.dims = <<"x", "y", "z">> /\ data_array.shape = <<2, 2, 2>>
  /\ out_dims = <<"z", "y", "x">>
  /\ ret.data = <<1, 5, 3, 7, 2, 6, 4, 8>>
\* dims [x] read as [y, x]: a synthetic axis in front
C3_WitnessPadded ==
  /\ op = "get_numpy_array" /\ C3_Applies
  /\ data_array.dims = <<"x">> /\ data_array.shape = <<2>>
  /\ out_dims = <<"y", "x">> /\ ret.shape = <<1, 2>>

\* C4 (as claimed): the axes collected by the wildcard are combined in the
\* array's declared dimension order, whatever order the set of collected
\* names iterates in: the wildcard index, unravelled row-major over the
\* collected axes in declared order, gives A's index along those axes.
C4_Applies ==
  /\ BuilderOk
  /\ Cardinality({k \in DOMAIN out_dims : out_dims[k] = Wildcard}) = 1
C4_SourceIndex(idx) ==
  LET p == CHOOSE k \in DOMAIN out_dims : out_dims[k] = Wildcard
      collected == Unravel(idx[p], LengthsOf(CollectedAxes))
  IN [a \in DOMAIN data_array.dims |->
        IF a \in CollectedAxes THEN collected[PlaceAmong(a, CollectedAxes)]
        ELSE idx[CHOOSE k \in MatchingPositions(a) : TRUE]]
C4_DeclaredOrder ==
  C4_Applies =>
    \A idx \in Indices(ret.shape) :
      At(RetArray, idx) = At(InputArray, C4_SourceIndex(idx))

\* C5 (as claimed): without a wildcard, get_numpy_array raises whenever some
\* dimension of the array is matched by no entry of out_dims, whatever the
\* length of that dimension.
C5_UnmatchedRaises ==
  (BuilderRan /\ Wildcard \notin Range(out_dims) /\ CollectedAxes # {}) =>
    ret.status = "raise"

\* The names in the union of the arrays' axis names that are aliases of d
UnionAliases(d) == AllNames(arrays) \cap Range(dim_names[d])
Ambiguous(d) == Cardinality(UnionAliases(d)) > 1
ValidOutDims == Range(out_dims) \subseteq {"x", "y", "z"}
\* The two configuration errors of combine_dimensions, and its ambiguity
\* error; all three are ValueErrors that differ in their message.
ConfigurationMessages == {"invalid_direction", "not_included"}
AmbiguityMessage == "multiple"

\* C6 (as claimed): when combine_dimensions returns for valid out_dims, every
\* position i of the returned list holds the unique name of the union that is
\* an alias of out_dims[i], or the letter out_dims[i] when there is none.
C6_ExpectedName(i) ==
  IF UnionAliases(out_dims[i]) = {} THEN out_dims[i]
  ELSE CHOOSE n \in UnionAliases(out_dims[i]) : TRUE
C6_EveryPositionAssigned ==
  (ResolverRan /\ ValidOutDims /\ ret.status = "ok") =>
    /\ Len(ret.out_names) = Len(out_dims)
    /\ \A i \in DOMAIN out_dims : ret.out_names[i] = C6_ExpectedName(i)

\* C7 (as claimed): combine_dimensions raises the ambiguity error whenever
\* some direction of the registry has more than one alias in the union,
\* whether or not out_dims lists that direction.
C7_AlwaysAmbiguityError ==
  (ResolverRan /\ \E d \in Directions : Ambiguous(d)) =>
    (ret.status = "raise" /\ ret.msg = AmbiguityMessage)

\* C7 (amended): when some direction has more than one alias in the union,
\* combine_dimensions raises a ValueError; it is the ambiguity error when
\* out_dims is valid and lists every direction that has an alias in the union.
C7_AmbiguityAmongRequested ==
  (ResolverRan /\ \E d \in Directions : Ambiguous(d)) =>
    /\ ret.status = "raise" /\ ret.exc = "ValueError"
    /\ (ValidOutDims /\ \A d \in Directions : UnionAliases(d) # {} => d \in Range(out_dims))
         => ret.msg = AmbiguityMessage
\* x and lon both present and x requested, together with another direction
C7_Witness ==
  /\ ResolverRan /\ Ambiguous("x")
  /\ UnionAliases("y") # {} /\ {"x", "y"} \subseteq Range(out_dims) /\ ValidOutDims
  /\ ret.msg = AmbiguityMessage /\ ret.direction = "x"

\* C8 (as claimed): combine_dimensions raises a configuration error whenever
\* a direction that out_dims does not list has an alias in the union.
C8_AlwaysConfigurationError ==
  (ResolverRan /\ \E d \in Directions \ Range(out_dims) : UnionAliases(d) # {}) =>
    (ret.status = "raise" /\ ret.msg \in ConfigurationMessages)

\* C8 (amended): in that case combine_dimensions raises a ValueError and
\* returns no list; it is a configuration error unless a direction that
\* out_dims lists has more than one alias in the union.
C8_ExcludedDirectionRaises ==
  (ResolverRan /\ \E d \in Directions \ Range(out_dims) : UnionAliases(d) # {}) =>
    /\ ret.status = "raise" /\ ret.exc = "ValueError" /\ ret.out_names = <<>>
    /\ (~\E d \in Directions \cap Range(out_dims) : Ambiguous(d))
         => ret.msg \in ConfigurationMessages
\* valid out_dims that leave out a direction an array has
C8_Witness ==
  /\ ResolverRan /\ ValidOutDims /\ out_dims # <<>>
  /\ \E d \in Directions \ Range(out_dims) : UnionAliases(d) # {} /\ ret.direction = d
  /\ ret.msg = "not_included"

\* C9: combine_dimensions raises the invalid-direction configuration error,
\* before it reads any array, whenever out_dims holds a token other than x, y
\* and z: the wildcard and registered alias names included.
C9_InvalidTokenRaises ==
  (ResolverRan /\ ~ValidOutDims) =>
    /\ ret.status = "raise" /\ ret.exc = "ValueError"
    /\ ret.msg = "invalid_direction"
    /\ ~ret.examined
\* the wildcard among out_dims, with arrays that would otherwise be ambiguous
C9_WitnessWildcard ==
  /\ ResolverRan /\ Wildcard \in Range(out_dims) /\ "x" \in Range(out_dims)
  /\ Ambiguous("x") /\ ret.msg = "invalid_direction"
\* a registered alias among out_dims
C9_Witness ==
  /\ ResolverRan /\ "lon" \in Range(out_dims) /\ "lon" \in Range(dim_names["x"])
  /\ arrays # <<>> /\ ret.msg = "invalid_direction"

\* C10 (as claimed): get_numpy_array raises a configuration error, the
\* ValueError of its other failures, whenever out_dims holds a token outside
\* {x, y, z, *}.
C10_InvalidTokenIsValueError ==
  (BuilderRan /\ ~(Range(out_dims) \subseteq {"x", "y", "z", Wildcard})) =>
    (ret.status = "raise" /\ ret.exc = "ValueError")

\* C11 (as claimed): get_numpy_array accepts in out_dims the array's own
\* dimension names in place of direction tokens: when out_dims lists the
\* array's dimension names in some order, one of them no direction token, the
\* call returns the array with its axes in the order of out_dims.
C11_OwnNames ==
  /\ Len(out_dims) = Len(data_array.dims)
  /\ Range(out_dims) = Range(data_array.dims)
  /\ Range(out_dims) \ (Directions \cup {Wildcard}) # {}
C11_OwnNamesAccepted ==
  (BuilderRan /\ C11_OwnNames) =>
    /\ ret.status = "ok"
    /\ ret.shape = [k \in DOMAIN out_dims |-> AxisLen(data_array, out_dims[k])]

\* C12 (as claimed): get_numpy_array raises the ambiguity error and returns
\* no array whenever out_dims holds a direction of which the array has two or
\* more dimensions, whatever the other entries of out_dims are.
C12_AmbiguousDirections ==
  {d \in Range(out_dims) \cap Directions : Cardinality(MatchedAxes(d)) >= 2}
C12_AmbiguityRaises ==
  (BuilderRan /\ C12_AmbiguousDirections # {}) =>
    /\ ret.status = "raise" /\ ret.msg = AmbiguityMessage
    /\ ret.shape = <<>> /\ ret.data = <<>>

\* The ambiguity error is raised whenever every entry of out_dims is one the
\* registry can look up.
AmbiguityRaisesWhenLookupSucceeds ==
  (BuilderRan /\ C12_AmbiguousDirections # {}
     /\ Range(out_dims) \subseteq Directions \cup {Wildcard}) =>
    /\ ret.status = "raise" /\ ret.exc = "ValueError" /\ ret.msg = AmbiguityMessage
    /\ ret.shape = <<>> /\ ret.data = <<>>

\* C13: set_dimension_names(x, y, z) gives each direction d the alias list
\* [d, s] when its argument is the string s, [d] followed by L when it is the
\* sequence L, and leaves the list as it was when the argument is None; the
\* names the direction had before are not kept.
SetDimensionNamesRan == op = "set_dimension_names"
C13_Expected(d) ==
  IF args[d].kind = "str" THEN <<d, args[d].val[1]>>
  ELSE IF args[d].kind = "seq" THEN <<d>> \o args[d].val
  ELSE before[d]
C13_AliasListsReplaced ==
  SetDimensionNamesRan =>
    /\ DOMAIN dim_names = Directions
    /\ \A d \in Directions : dim_names[d] = C13_Expected(d)
\* x had the alias lon and is given it again as a string, while y is reset
\* and z is left alone
C13_Witness ==
  /\ SetDimensionNamesRan
  /\ before["x"] = <<"x", "lon">> /\ args["x"] = ArgStr("lon")
  /\ dim_names["x"] = <<"x", "lon">>
  /\ args["y"] = ArgSeq(<<>>) /\ args["z"] = ArgNone
\* x had the alias lon and is reset with an empty sequence
C13_WitnessReset ==
  /\ SetDimensionNamesRan
  /\ before["x"] = <<"x", "lon">> /\ args["x"] = ArgSeq(<<>>)
  /\ dim_names["x"] = <<"x">>

\* C17: the attribute map of the array restore_dimensions returns is exactly
\* result_attrs, and empty when result_attrs is left out; no attribute of
\* result_like is in it unless result_attrs holds it too.
RestorerOk == op = "restore_dimensions" /\ restored.status = "ok"
C17_AttrsExactlyResultAttrs ==
  RestorerOk =>
    /\ result_attrs.supplied => restored.attrs = result_attrs.val
    /\ ~result_attrs.supplied => restored.attrs = {}
    /\ \A p \in result_like.attrs :
         p \in restored.attrs => (result_attrs.supplied /\ p \in result_attrs.val)
\* a template with units '' restored with result_attrs = {'units': 'K'}
C17_Witness ==
  /\ RestorerOk
  /\ result_like.attrs = {<<"units", "">>}
  /\ result_attrs = AttrsGiven({<<"units", "K">>})
  /\ restored.attrs = {<<"units", "K">>}
\* the same template restored without result_attrs
C17_WitnessDefault ==
  /\ RestorerOk
  /\ result_like.attrs = {<<"units", "">>} /\ Len(result_like.dims) = 3
  /\ ~result_attrs.supplied
  /\ restored.attrs = {}

\* C18: when out_dims has no wildcard and every axis of the array is matched
\* by exactly one entry (a reordering of the array's directions, with or
\* without padding), the array get_numpy_array returns is a view of
\* data_array.values: no buffer is allocated and every element of the buffer
\* is an element of the view, so a write through it is a write to the source.
C18_Applies ==
  /\ BuilderOk
  /\ Wildcard \notin Range(out_dims)
  /\ \A a \in DOMAIN data_array.dims : Cardinality(MatchingPositions(a)) = 1
C18_ZeroCopy ==
  C18_Applies =>
    /\ ret.view
    /\ Range(ret.data) = Range(data_array.data)
    /\ Len(ret.data) = Len(data_array.data)
\* dims [x, y] of lengths 2 read as [y, z, x]: transposed and padded
C18_Witness ==
  /\ op = "get_numpy_array" /\ C18_Applies
  /\ data_array.dims = <<"x", "y">> /\ data_array.shape = <<2, 2>>
  /\ out_dims = <<"y", "z", "x">>
  /\ ret.shape = <<2, 1, 2>> /\ ret.data = <<1, 3, 2, 4>> /\ ret.view

\* C19: a call of combine_dimensions or get_numpy_array, whether it returns
\* or raises, leaves the alias list of every direction as it was, and the
\* arrays it was given have afterwards the dimension names and the values
\* their maker gave them.
AsMade(a) ==
  /\ Len(a.dims) = Len(a.shape)
  /\ Cardinality(Range(a.dims)) = Len(a.dims)
  /\ a.data = Iota(Product(a.shape))
InputsAsMade ==
  /\ op = "get_numpy_array" => AsMade(data_array)
  /\ op = "combine_dimensions" =>
       \A i \in DOMAIN arrays : arrays[i].dims \in InjSeqsUpTo(Names, MaxCombineDims)
C19_CallsLeaveRegistry ==
  [][op' \in {"combine_dimensions", "get_numpy_array"} =>
       (dim_names' = dim_names /\ InputsAsMade')]_vars
\* combine_dimensions returned the alias lon for x, the name it popped from
\* its set of names, and the registry still has it
C19_Witness ==
  /\ ResolverRan /\ ret.status = "ok"
  /\ out_dims = <<"x">> /\ ret.out_names = <<"lon">>
  /\ dim_names["x"] = <<"x", "lon">>
\* get_numpy_array raised on an ambiguous array and left the registry alone
C19_WitnessRaise ==
  /\ op = "get_numpy_array" /\ ret.status = "raise" /\ ret.msg = AmbiguityMessage
  /\ data_array.dims = <<"x", "lon">> /\ data_array.shape = <<2, 2>>
  /\ dim_names["x"] = <<"x", "lon">>

\* ------------------------------------------------- UpdateFrequencyWrapper
\* The calls before call k in which the prognostic was called, and those of
\* them in which it returned
InvocationsBefore(k) == {j \in 1..(k - 1) : calls[j].invoked}
ReturnedBefore(k) == {j \in InvocationsBefore(k) : ~calls[j].raised}
Latest(S) == CHOOSE j \in S : \A i \in S : i <= j
StoredBefore(k) == IF k = 1 THEN NoTime ELSE calls[k - 1].stored

\* C20 (as claimed): a call invokes the prognostic exactly when it is the
\* first call or its time is at least update_timedelta after the time of the
\* last call that invoked the prognostic.
C20_InvokedExactlyWhenDue ==
  \A k \in DOMAIN calls :
    calls[k].invoked <=>
      \/ k = 1
      \/ /\ InvocationsBefore(k) # {}
         /\ calls[k].time >= calls[Latest(InvocationsBefore(k))].time + update_timedelta

\* C20 (amended): a call invokes the prognostic exactly when no earlier
\* invocation has returned or its time is at least update_timedelta after the
\* time of the last invocation that returned; a call that does not invoke it
\* leaves the stored update time as it was and returns the output of the
\* last invocation that returned.
C20_Due(k) ==
  \/ ReturnedBefore(k) = {}
  \/ calls[k].time >= calls[Latest(ReturnedBefore(k))].time + update_timedelta
C20_InvokedWhenNoneReturnedOrDue ==
  \A k \in DOMAIN calls :
    /\ calls[k].invoked <=> C20_Due(k)
    /\ ~calls[k].invoked =>
         /\ calls[k].stored = StoredBefore(k)
         /\ calls[k].returned = calls[Latest(ReturnedBefore(k))].output
         /\ calls[k].returned \in Outputs
\* an invocation that raised, one that returned a, a call too early for an
\* update that returned a again
C20_Witness ==
  /\ Len(calls) = 3 /\ update_timedelta = 2
  /\ calls[1].invoked /\ calls[1].raised
  /\ calls[2].invoked /\ calls[2].returned = "a" /\ calls[2].time = 1
  /\ ~calls[3].invoked /\ calls[3].returned = "a" /\ calls[3].time = 2
  /\ last_update_time = 1

\* --------------------------------------- get_numpy_arrays_with_properties
BatchRan == batch_ret.status # "none"
BatchOk == batch_ret.status = "ok"
\* every requested quantity has dims and units in its property spec, is in
\* the state and has units there
RequestSatisfiable ==
  /\ Malformed(properties) = {}
  /\ Keys(properties) \subseteq Keys(state)
  /\ \A q \in Keys(properties) : UnitsOf(state[q]) # NoUnits

\* C14: the mapping get_numpy_arrays_with_properties returns has exactly the
\* keys of the property dictionary; a quantity of the state that is not
\* requested is not in it and raises no error, whatever it is.
C14_ExactlyRequested ==
  /\ BatchOk => Keys(batch_ret.out) = Keys(properties)
  /\ (BatchRan /\ RequestSatisfiable) => BatchOk
\* air_temperature alone is requested of a state that also has air_pressure
\* and an eastward_wind without units
C14_Witness ==
  /\ BatchOk
  /\ Keys(properties) = {"air_temperature"}
  /\ Keys(state) = Quantities /\ UnitsOf(state["eastward_wind"]) = NoUnits
  /\ Keys(batch_ret.out) = {"air_temperature"}
  /\ batch_ret.out["air_temperature"].shape = <<1, 1, 2>>
\* every quantity of the state is requested and returned
C14_WitnessAll ==
  /\ BatchOk /\ Keys(properties) = Quantities /\ Keys(batch_ret.out) = Quantities

\* C15 (as claimed): the call raises the state-mismatch error, naming every
\* requested quantity that the state lacks, whenever it lacks at least one.
C15_Absent == Keys(properties) \ Keys(state)
C15_MissingAlwaysReported ==
  (BatchRan /\ C15_Absent # {}) =>
    /\ batch_ret.status = "raise" /\ batch_ret.exc = "StateMismatchError"
    /\ batch_ret.missing = C15_Absent
    /\ Keys(batch_ret.out) = {}

\* C15 (amended): whenever the state lacks a requested quantity the call
\* raises and returns no mapping; when every property spec has dims and
\* units the error is the state-mismatch error and names every requested
\* quantity that the state lacks.
C15_MissingReported ==
  (BatchRan /\ C15_Absent # {}) =>
    /\ batch_ret.status = "raise" /\ Keys(batch_ret.out) = {}
    /\ Malformed(properties) = {} =>
         (batch_ret.exc = "StateMismatchError" /\ batch_ret.missing = C15_Absent)
\* two requested quantities are missing, a third is there
C15_Witness ==
  /\ BatchRan /\ Keys(properties) = Quantities /\ Keys(state) = {"air_pressure"}
  /\ batch_ret.exc = "StateMismatchError"
  /\ batch_ret.missing = {"air_temperature", "eastward_wind"}

\* C16: a call that asks for a quantity in units other than its own leaves
\* the values and the units of the quantity in the state as they were; the
\* array returned has the converted values and is no view of the state's.
Converted(st, props) == {q \in Keys(props) \cap Keys(st) : props[q].units # UnitsOf(st[q])}
C16_ConversionLeavesState ==
  [][(batch_ret'.status = "ok" /\ Converted(state, properties') # {}) =>
       /\ state' = state
       /\ \A q \in Converted(state, properties') :
            /\ batch_ret'.out[q].data =
                 [k \in DOMAIN state[q].data |->
                    ConvertValue(state[q].data[k], UnitsOf(state[q]), properties'[q].units)]
            /\ ~batch_ret'.out[q].view]_vars
\* 0 degK asked for in degC: -273.15 is returned and the state still has 0 degK
C16_Witness ==
  /\ BatchOk
  /\ properties["air_temperature"].units = "degC"
  /\ state["air_temperature"].data = <<0>>
  /\ UnitsOf(state["air_temperature"]) = "degK"
  /\ batch_ret.out["air_temperature"].data = <<-27315>>
  /\ batch_ret.out["air_temperature"].shape = <<1, 1, 1>>

\* C21: after any sequence of set_dimension_names calls the registry has
\* exactly the keys x, y and z, and each direction's alias list is non-empty
\* and starts with the direction's own letter.
C21_OwnLetterFirst ==
  /\ DOMAIN dim_names = Directions
  /\ \A d \in Directions : Len(dim_names[d]) >= 1 /\ dim_names[d][1] = d
\* A second set_dimension_names call: x, which had an alias from an earlier
\* call, and y are both given the empty sequence
C21_Witness ==
  /\ SetDimensionNamesRan
  /\ before["x"] = <<"x", "lon">>
  /\ args["x"] = ArgSeq(<<>>) /\ args["y"] = ArgSeq(<<>>)
  /\ dim_names["x"] = <<"x">> /\ dim_names["y"] = <<"y">>

\* C22 (as claimed): when update_timedelta is not negative, the times of the
\* calls that invoked the prognostic never go down, and two consecutive
\* invocations are at least update_timedelta apart.
Invocations == {k \in DOMAIN calls : calls[k].invoked}
C22_ConsecutiveInvocations ==
  {p \in Invocations \X Invocations :
     p[1] < p[2] /\ ~\E m \in Invocations : p[1] < m /\ m < p[2]}
C22_InvocationsApart ==
  update_timedelta >= 0 =>
    \A p \in C22_ConsecutiveInvocations :
      /\ calls[p[2]].time >= calls[p[1]].time
      /\ calls[p[2]].time - calls[p[1]].time >= update_timedelta

\* C22 (amended): when update_timedelta is not negative, every invocation is
\* at a time at least update_timedelta after, and not before, the time of the
\* last earlier invocation that returned; so the times of the invocations
\* that returned never go down and two consecutive ones are at least
\* update_timedelta apart.
ReturnedInvocations == {k \in Invocations : ~calls[k].raised}
C22_ConsecutiveReturned ==
  {p \in ReturnedInvocations \X ReturnedInvocations :
     p[1] < p[2] /\ ~\E m \in ReturnedInvocations : p[1] < m /\ m < p[2]}
C22_ReturnedInvocationsApart ==
  update_timedelta >= 0 =>
    /\ \A k \in Invocations : \A j \in ReturnedInvocations :
         j < k =>
           /\ calls[k].time >= calls[j].time
           /\ calls[k].time - calls[j].time >= update_timedelta
    /\ \A p \in C22_ConsecutiveReturned :
         /\ calls[p[2]].time >= calls[p[1]].time
         /\ calls[p[2]].time - calls[p[1]].time >= update_timedelta
\* an invocation that returned at time 1, a call with an earlier time that
\* does not invoke the prognostic, and an invocation update_timedelta later
C22_Witness ==
  /\ Len(calls) = 3 /\ update_timedelta = 2
  /\ calls[1].invoked /\ ~calls[1].raised /\ calls[1].time = 1
  /\ ~calls[2].invoked /\ calls[2].time = 0
  /\ calls[3].invoked /\ ~calls[3].raised /\ calls[3].time = 3
\* an invocation at time 3 that raised, followed by invocations at times 0
\* and 2 that returned
C22_WitnessAfterRaise ==
  /\ Len(calls) = 3 /\ update_timedelta = 2
  /\ calls[1].invoked /\ calls[1].raised /\ calls[1].time = 3
  /\ calls[2].invoked /\ ~calls[2].raised /\ calls[2].time = 0
  /\ calls[3].invoked /\ ~calls[3].raised /\ calls[3].time = 2

\* --------------------------------------- update_dict_by_adding_another
\* C23: after any sequence of update_dict_by_adding_another calls every
\* dictionary passed as dict2 holds the keys and values it held before the
\* calls, and dict1 holds, for each key, the value it held before the calls
\* plus the sum of the values the dict2 arguments held for that key.
Dict2AsMade == \A n \in Dict2Names : Holds(heap, dict2[n]) = made[n]
Dict1IsSum ==
  \A k \in DictKeys :
    /\ dict1[k].present <=> (made["dict1"][k].present \/ passed[k].times > 0)
    /\ dict1[k].present => ValueOf(heap, dict1[k]) = made["dict1"][k].val + passed[k].sum
C23_OnlyDict1Modified == Dict2AsMade /\ Dict1IsSum

\* The same when dict1 holds every key before the first call, so that no
\* call stores an object of dict2 in dict1
Dict1MadeWithEveryKey == \A k \in DictKeys : made["dict1"][k].present
OnlyDict1ModifiedWhenKeysPresent ==
  (updates > 0 /\ Dict1MadeWithEveryKey) => C23_OnlyDict1Modified
\* The same when every value of the dict2 arguments is a number
Dict2HoldNumbers ==
  \A n \in Dict2Names, k \in DictKeys : dict2[n][k].kind # "array"
OnlyDict1ModifiedWhenNumbers ==
  (updates > 0 /\ Dict2HoldNumbers) => C23_OnlyDict1Modified
\* The sum alone, each value of dict2 taken as it was when passed
Dict1IsSumOfPassed == updates > 0 => Dict1IsSum

====
